---- MODULE Spec2Model ----
(***************************************************************************)
(* enviroplus_exporter: the sensor accessors of enviroplus_api.py, the     *)
(* read_* functions, the main poll loop and the two forwarder threads of   *)
(* enviroplus_exporter.py.                                                  *)
(*                                                                         *)
(* Temperatures are fixed-point numbers in hundredths of a degree; the     *)
(* sampled values are chosen so that every division of get_temperature is  *)
(* exact.  A Python None is the record None, a returned value v is         *)
(* Some(v).  A sensor driver call is an outcome record: [kind |-> "ok",    *)
(* val |-> v], [kind |-> "io"] (IOError) or [kind |-> "timeout"]           *)
(* (pms5003.ReadTimeoutError).                                              *)
(***************************************************************************)
EXTENDS Integers, Sequences, FiniteSets, TLC

\* ---------------------------------------------------------------- bounds
\* Number of poll cycles the main loop may start.
MaxCycles == 2
\* Number of get_temperature calls followed by the rolling-window model.
MaxCalls == 6

\* ------------------------------------------------------ program constants
\* [get_cpu_temperature()] * 5
WindowSize == 5

\* ------------------------------------------------------------ input sets
RawTemps == {2000, 2500}
CpuTemps == {4000, 5000}
Pressures == {1013}
Humidities == {45}
LightReadings == {[lux |-> 120, prox |-> 3]}
GasReadings == {[oxidising |-> 12000, reducing |-> 250000, nh3 |-> 50000]}
PmReadings == {[pm1 |-> 3, pm25 |-> 7, pm10 |-> 12], [pm1 |-> 8, pm25 |-> 8, pm10 |-> 120]}

None == [none |-> TRUE]
Some(v) == [none |-> FALSE, val |-> v]

Ok(S) == {[kind |-> "ok", val |-> v] : v \in S}
IOError == [kind |-> "io"]
ReadTimeoutError == [kind |-> "timeout"]

\* ------------------------------------------------------ metrics registry
GaugeNames == {"temperature", "pressure", "humidity", "oxidising", "reducing",
               "nh3", "lux", "proximity", "pm1", "pm25", "pm10"}
HistNames == {"oxidising", "reducing", "nh3", "pm1", "pm25", "pm10"}

RECURSIVE Steps(_, _, _)
\* from, from + step, ..., up to and including to
Steps(from, to, step) ==
    IF from > to THEN << >> ELSE <<from>> \o Steps(from + step, to, step)

\* buckets= of the six Histogram objects
OXIDISING_BUCKETS == <<0>> \o Steps(10000, 90000, 5000) \o <<100000>>
REDUCING_BUCKETS == Steps(0, 1500000, 100000)
NH3_BUCKETS == <<0>> \o Steps(10000, 1910000, 100000) \o <<2000000>>
PM_BUCKETS == Steps(0, 100, 5)

Buckets(name) ==
    CASE name = "oxidising" -> OXIDISING_BUCKETS
      [] name = "reducing" -> REDUCING_BUCKETS
      [] name = "nh3" -> NH3_BUCKETS
      [] OTHER -> PM_BUCKETS

\* A histogram: the running sum and one counter per bucket, the last one
\* the +Inf bucket that the client library adds.
NewHistogram(name) ==
    [sum |-> 0, counts |-> [i \in 1..(Len(Buckets(name)) + 1) |-> 0]]

\* A gauge starts at 0 and collect() returns what was last set.
InitGauges == [n \in GaugeNames |-> 0]
InitHists == [n \in HistNames |-> NewHistogram(n)]

\* Index of the bucket an amount falls in: the first upper bound >= amount.
BucketOf(name, amount) ==
    LET b == Buckets(name)
        fits == {i \in 1..Len(b) : amount <= b[i]}
    IN IF fits = {} THEN Len(b) + 1
       ELSE CHOOSE i \in fits : \A j \in fits : i <= j

\* Gauge.set(value)
GaugeSet(g, name, value) == [g EXCEPT ![name] = value]

\* Histogram.observe(amount)
HistObserve(h, name, amount) ==
    [h EXCEPT ![name] = [sum |-> @.sum + amount,
                         counts |-> [@.counts EXCEPT ![BucketOf(name, amount)] = @ + 1]]]

HistCount(h, name) ==
    LET c == h[name].counts
        RECURSIVE Total(_)
        Total(i) == IF i = 0 THEN 0 ELSE c[i] + Total(i - 1)
    IN Total(Len(c))

\* ------------------------------------------------------------ enviroplus_api
NoLog == [errors |-> 0, warnings |-> 0, resets |-> 0]

Sum(seq) ==
    LET RECURSIVE Add(_)
        Add(i) == IF i = 0 THEN 0 ELSE seq[i] + Add(i - 1)
    IN Add(Len(seq))

\* get_temperature(factor): raw is bme280.get_temperature(), s1 and s2 the
\* two get_cpu_temperature() samples of the call (lines 53 and 54).  A
\* factor of 0 stands for every falsy factor (0.0, False, None).
get_temperature(f, raw, s1, s2) ==
    IF f # 0
    THEN LET seeded == [i \in 1..WindowSize |-> s1]
             window == Tail(seeded) \o <<s2>>
             avg_cpu_temp == Sum(window) \div Len(window)
         IN [temperature |-> raw - ((avg_cpu_temp - raw) \div f),
             cpu_temps |-> window]
    ELSE [temperature |-> raw, cpu_temps |-> << >>]

\* An accessor returns what it returns (ret) and what it logged and reset.
get_pressure(o) ==
    IF o.kind = "ok"
    THEN [ret |-> Some(o.val), errors |-> 0, warnings |-> 0, resets |-> 0]
    ELSE [ret |-> None, errors |-> 1, warnings |-> 0, resets |-> 1]

get_humidity(o) ==
    IF o.kind = "ok"
    THEN [ret |-> Some(o.val), errors |-> 0, warnings |-> 0, resets |-> 0]
    ELSE [ret |-> None, errors |-> 1, warnings |-> 0, resets |-> 1]

get_gas(o) ==
    IF o.kind = "ok"
    THEN [ret |-> Some(o.val), errors |-> 0, warnings |-> 0, resets |-> 0]
    ELSE [ret |-> None, errors |-> 1, warnings |-> 0, resets |-> 1]

get_light(o) ==
    IF o.kind = "ok"
    THEN [ret |-> Some([lux |-> o.val.lux, prox |-> o.val.prox]),
          errors |-> 0, warnings |-> 0, resets |-> 0]
    ELSE [ret |-> None, errors |-> 1, warnings |-> 0, resets |-> 1]

\* Mutant: the read-timeout is handled like the bus I/O failure.
get_particulates_timeout_as_ioerror(o) ==
    IF o.kind = "ok"
    THEN [ret |-> Some(o.val), errors |-> 0, warnings |-> 0, resets |-> 0]
    ELSE [ret |-> None, errors |-> 1, warnings |-> 0, resets |-> 1]

get_particulates(o) ==
    CASE o.kind = "timeout" ->
           [ret |-> None, errors |-> 0, warnings |-> 1, resets |-> 0]
      [] o.kind = "io" ->
           [ret |-> None, errors |-> 1, warnings |-> 0, resets |-> 1]
      [] OTHER ->
           [ret |-> Some(o.val), errors |-> 0, warnings |-> 0, resets |-> 0]

\* ------------------------------------------------------- read_* functions
\* What a read_* function does to the registry with the accessor's return
\* value.  raised: the function ended in an exception nobody catches
\* (Gauge.set(None) is float(None), a TypeError; None.oxidising and
\* None.pm_ug_per_m3 are AttributeErrors, None["lux"] a TypeError), each of
\* them raised before the first write.
\* Mutant: PRESSURE.set(pressure or 0), a failed read zeroes the gauge.
read_pressure_update_or_zero(g, ret) ==
    [gauges |-> GaugeSet(g, "pressure", IF ret.none THEN 0 ELSE ret.val),
     raised |-> FALSE]

read_pressure_update(g, ret) ==
    IF ret.none THEN [gauges |-> g, raised |-> TRUE]
    ELSE [gauges |-> GaugeSet(g, "pressure", ret.val), raised |-> FALSE]

read_humidity_update(g, ret) ==
    IF ret.none THEN [gauges |-> g, raised |-> TRUE]
    ELSE [gauges |-> GaugeSet(g, "humidity", ret.val), raised |-> FALSE]

read_light_update(g, ret) ==
    IF ret.none THEN [gauges |-> g, raised |-> TRUE]
    ELSE [gauges |-> GaugeSet(GaugeSet(g, "lux", ret.val.lux),
                              "proximity", ret.val.prox),
          raised |-> FALSE]

read_gas_update(g, h, ret) ==
    IF ret.none THEN [gauges |-> g, hists |-> h, raised |-> TRUE]
    ELSE LET r == ret.val
         IN [gauges |-> GaugeSet(GaugeSet(GaugeSet(g, "oxidising", r.oxidising),
                                          "reducing", r.reducing),
                                 "nh3", r.nh3),
             hists |-> HistObserve(HistObserve(HistObserve(h, "oxidising", r.oxidising),
                                               "reducing", r.reducing),
                                   "nh3", r.nh3),
             raised |-> FALSE]

\* Mutant: the histograms observe the cumulative values the gauges get.
read_particulates_update_cumulative(g, h, ret) ==
    IF ret.none THEN [gauges |-> g, hists |-> h, raised |-> TRUE]
    ELSE LET d == ret.val
         IN [gauges |-> GaugeSet(GaugeSet(GaugeSet(g, "pm1", d.pm1),
                                          "pm25", d.pm25),
                                 "pm10", d.pm10),
             hists |-> HistObserve(HistObserve(HistObserve(h, "pm1", d.pm1),
                                               "pm25", d.pm25),
                                   "pm10", d.pm10),
             raised |-> FALSE]

read_particulates_update(g, h, ret) ==
    IF ret.none THEN [gauges |-> g, hists |-> h, raised |-> TRUE]
    ELSE LET d == ret.val
         IN [gauges |-> GaugeSet(GaugeSet(GaugeSet(g, "pm1", d.pm1),
                                          "pm25", d.pm25),
                                 "pm10", d.pm10),
             hists |-> HistObserve(HistObserve(HistObserve(h, "pm1", d.pm1),
                                               "pm25", d.pm25 - d.pm1),
                                   "pm10", d.pm10 - d.pm25),
             raised |-> FALSE]

\* collect_all_data(): the value of every gauge, by field name.
collect_all_data(g) == [n \in GaugeNames |-> g[n]]

\* --------------------------------------------------------------- startup
\* args.factor is None when -f is not given; ENVIROPLUS_FACTOR is unset or
\* holds a number.
NotGiven == [given |-> FALSE]
Given(v) == [given |-> TRUE, val |-> v]

\* The pairs <<args.factor, ENVIROPLUS_FACTOR>> the model starts from: none
\* given, both zero, only -f non-zero, -f zero and the variable non-zero.
FactorSettings == {<<NotGiven, NotGiven>>, <<Given(0), Given(0)>>,
                   <<Given(2), NotGiven>>, <<Given(0), Given(2)>>}

\* ENVIROPLUS_FACTOR = float(os.getenv('ENVIROPLUS_FACTOR', 0)) or False
ENVIROPLUS_FACTOR(env) == IF env.given THEN env.val ELSE 0

\* Mutant: compensation is on by default, os.getenv('ENVIROPLUS_FACTOR', 2).
select_factor_default_on(arg, env) ==
    IF arg.given /\ arg.val # 0 THEN arg.val
    ELSE IF env.given THEN env.val ELSE 2

\* factor = args.factor or ENVIROPLUS_FACTOR
select_factor(arg, env) ==
    IF arg.given /\ arg.val # 0 THEN arg.val ELSE ENVIROPLUS_FACTOR(env)

\* ------------------------------------------------------------- luftdaten
\* A dictionary key is the sequence of its characters.
KEY_P2 == <<"P", "2">>
KEY_P1 == <<"P", "1">>
KEY_TEMPERATURE == <<"t", "e", "m", "p", "e", "r", "a", "t", "u", "r", "e">>
KEY_PRESSURE == <<"p", "r", "e", "s", "s", "u", "r", "e">>
KEY_HUMIDITY == <<"h", "u", "m", "i", "d", "i", "t", "y">>

\* str.startswith, for a one-character prefix
startswith(key, c) == Len(key) >= 1 /\ key[1] = c

\* The values dictionary of post_to_luftdaten in insertion order; field is
\* the sensor_data entry the value is taken from.
luftdaten_values ==
    << [value_type |-> KEY_P2, field |-> "pm25"],
       [value_type |-> KEY_P1, field |-> "pm10"],
       [value_type |-> KEY_TEMPERATURE, field |-> "temperature"],
       [value_type |-> KEY_PRESSURE, field |-> "pressure"],
       [value_type |-> KEY_HUMIDITY, field |-> "humidity"] >>

\* Mutant: the prefix test ignores case, so "pressure" counts as particulate.
IsPmItem_ignoring_case(i) ==
    startswith(i.value_type, "P") \/ startswith(i.value_type, "p")

IsPmItem(i) == startswith(i.value_type, "P")

pm_values(values) == SelectSeq(values, IsPmItem)

IsTemperatureItem(i) == ~startswith(i.value_type, "P")

temperature_values(values) == SelectSeq(values, IsTemperatureItem)

\* get_serial_number() of the board the model runs on
SerialNumber == "00000000deadbeef"
LUFTDATEN_SENSOR_UID == <<"raspi-", SerialNumber>>

\* What a requests.post call ends in: a response that is ok, a response
\* that is not, or an exception.
PostOutcomes == {"ok", "failed", "exception"}
\* What influxdb_api.write ends in.
WriteOutcomes == {"ok", "exception"}

\* The try block of post_to_luftdaten: the requests issued, in order, each
\* with what it ended in, and the level of the log entry written ("none"
\* when nothing above info is).
luftdaten_push(values, uid, o1, o2) ==
    LET post_pin_1 == [pin |-> "1", sensor |-> uid,
                       sensordatavalues |-> pm_values(values), outcome |-> o1]
        post_pin_11 == [pin |-> "11", sensor |-> uid,
                        sensordatavalues |-> temperature_values(values), outcome |-> o2]
    IN IF o1 = "exception"
       THEN [posts |-> <<post_pin_1>>, log |-> "warning", pc |-> "sleep"]
       ELSE IF o2 = "exception"
       THEN [posts |-> <<post_pin_1, post_pin_11>>, log |-> "warning", pc |-> "sleep"]
       ELSE [posts |-> <<post_pin_1, post_pin_11>>,
             log |-> IF o1 = "ok" /\ o2 = "ok" THEN "none" ELSE "warning",
             pc |-> "sleep"]

\* Mutant: the handler logs and re-raises, which ends the thread.
influxdb_push_reraise(o) ==
    IF o = "exception" THEN [result |-> o, log |-> "warning", pc |-> "terminated"]
    ELSE [result |-> o, log |-> "none", pc |-> "sleep"]

\* The try block of post_to_influxdb.
influxdb_push(o) ==
    IF o = "exception" THEN [result |-> o, log |-> "warning", pc |-> "sleep"]
    ELSE [result |-> o, log |-> "none", pc |-> "sleep"]

\* ------------------------------------------------------------------ state
VARIABLES
    enviro,       \* args.enviro (FALSE also when -e is not given)
    argFactor,    \* args.factor
    envFactor,    \* the environment variable ENVIROPLUS_FACTOR
    factor,       \* factor of __main__
    mainPc,       \* the statement of the poll loop that runs next
    cycles,       \* poll cycles started
    gauges,       \* the eleven Gauge objects
    hists,        \* the six Histogram objects
    cycleLog,     \* error and warning entries logged, and reset_i2c calls
                  \* made, by the main thread in the current poll cycle
    cycleReads,   \* the accessors invoked in the current poll cycle
    driver,       \* the last sensor driver call and what it ended in
    influxPc,     \* post_to_influxdb: "off", "sleep", "push" or "terminated"
    influxResult, \* what influxdb_api.write ended in, in the current push cycle
    influxLog,    \* level logged in the current InfluxDB push cycle
    luftPc,       \* post_to_luftdaten: "off", "sleep", "push" or "terminated"
    luftPosts,    \* the requests issued in the current Luftdaten push cycle
    luftLog,      \* level logged in the current Luftdaten push cycle
    calls,        \* get_temperature calls made (rolling-window model)
    cpu_temps,    \* cpu_temps of get_temperature when the last call returned
    cpu_samples,  \* the cpu_temp sampled by each call, oldest first
    returned      \* what the last get_temperature call returned

vars == <<enviro, argFactor, envFactor, factor, mainPc, cycles, gauges, hists,
          cycleLog, cycleReads, driver, influxPc, influxResult, influxLog, luftPc,
          luftPosts, luftLog, calls, cpu_temps, cpu_samples, returned>>

configVars == <<enviro, argFactor, envFactor, factor>>
forwarderVars == <<influxPc, influxResult, influxLog, luftPc, luftPosts, luftLog>>
windowVars == <<calls, cpu_temps, cpu_samples, returned>>

NoDriverCall == [sensor |-> "none", outcome |-> [kind |-> "none"]]

AddLog(log, a) ==
    [errors |-> log.errors + a.errors,
     warnings |-> log.warnings + a.warnings,
     resets |-> log.resets + a.resets]

\* The state when the poll loop is entered: the arguments are parsed, the
\* factor is chosen and the forwarder threads asked for are started.
Init ==
    /\ enviro \in BOOLEAN
    /\ \E setting \in FactorSettings :
          argFactor = setting[1] /\ envFactor = setting[2]
    /\ factor = select_factor(argFactor, envFactor)
    /\ mainPc = "read_temperature"
    /\ cycles = 0
    /\ gauges = InitGauges
    /\ hists = InitHists
    /\ cycleLog = NoLog
    /\ cycleReads = {}
    /\ driver = NoDriverCall
    /\ influxPc \in {"off", "sleep"}
    /\ influxResult = "none"
    /\ influxLog = "none"
    /\ luftPc \in {"off", "sleep"}
    /\ luftPosts = << >>
    /\ luftLog = "none"
    /\ calls = 0
    /\ cpu_temps = << >>
    /\ cpu_samples = << >>
    /\ returned = 0

\* ------------------------------------------------------------- poll loop
\* read_temperature(factor), the first statement of a poll cycle.
\* get_temperature has no try block: an IOError of the driver ends the loop.
read_temperature ==
    /\ mainPc = "read_temperature"
    /\ cycles < MaxCycles
    /\ \E o \in Ok(RawTemps) \cup {IOError}, s1 \in CpuTemps, s2 \in CpuTemps :
         /\ driver' = [sensor |-> "temperature", outcome |-> o]
         /\ IF o.kind = "ok"
            THEN /\ gauges' = GaugeSet(gauges, "temperature",
                                       get_temperature(factor, o.val, s1, s2).temperature)
                 /\ mainPc' = "read_pressure"
            ELSE /\ gauges' = gauges
                 /\ mainPc' = "crashed"
    /\ cycles' = cycles + 1
    /\ cycleLog' = NoLog
    /\ cycleReads' = {"temperature"}
    /\ UNCHANGED <<hists, configVars, forwarderVars, windowVars>>

read_pressure ==
    /\ mainPc = "read_pressure"
    /\ \E o \in Ok(Pressures) \cup {IOError} :
         LET a == get_pressure(o)
             u == read_pressure_update(gauges, a.ret)
         IN /\ driver' = [sensor |-> "pressure", outcome |-> o]
            /\ cycleLog' = AddLog(cycleLog, a)
            /\ gauges' = u.gauges
            /\ mainPc' = IF u.raised THEN "crashed" ELSE "read_humidity"
    /\ cycleReads' = cycleReads \cup {"pressure"}
    /\ UNCHANGED <<cycles, hists, configVars, forwarderVars, windowVars>>

read_humidity ==
    /\ mainPc = "read_humidity"
    /\ \E o \in Ok(Humidities) \cup {IOError} :
         LET a == get_humidity(o)
             u == read_humidity_update(gauges, a.ret)
         IN /\ driver' = [sensor |-> "humidity", outcome |-> o]
            /\ cycleLog' = AddLog(cycleLog, a)
            /\ gauges' = u.gauges
            /\ mainPc' = IF u.raised THEN "crashed" ELSE "read_light"
    /\ cycleReads' = cycleReads \cup {"humidity"}
    /\ UNCHANGED <<cycles, hists, configVars, forwarderVars, windowVars>>

\* read_light(), then "if not args.enviro".
read_light ==
    /\ mainPc = "read_light"
    /\ \E o \in Ok(LightReadings) \cup {IOError} :
         LET a == get_light(o)
             u == read_light_update(gauges, a.ret)
         IN /\ driver' = [sensor |-> "light", outcome |-> o]
            /\ cycleLog' = AddLog(cycleLog, a)
            /\ gauges' = u.gauges
            /\ mainPc' = IF u.raised THEN "crashed"
                         ELSE IF enviro THEN "end_of_cycle" ELSE "read_gas"
    /\ cycleReads' = cycleReads \cup {"light"}
    /\ UNCHANGED <<cycles, hists, configVars, forwarderVars, windowVars>>

read_gas ==
    /\ mainPc = "read_gas"
    /\ \E o \in Ok(GasReadings) \cup {IOError} :
         LET a == get_gas(o)
             u == read_gas_update(gauges, hists, a.ret)
         IN /\ driver' = [sensor |-> "gas", outcome |-> o]
            /\ cycleLog' = AddLog(cycleLog, a)
            /\ gauges' = u.gauges
            /\ hists' = u.hists
            /\ mainPc' = IF u.raised THEN "crashed" ELSE "read_particulates"
    /\ cycleReads' = cycleReads \cup {"gas"}
    /\ UNCHANGED <<cycles, configVars, forwarderVars, windowVars>>

read_particulates ==
    /\ mainPc = "read_particulates"
    /\ \E o \in Ok(PmReadings) \cup {IOError, ReadTimeoutError} :
         LET a == get_particulates(o)
             u == read_particulates_update(gauges, hists, a.ret)
         IN /\ driver' = [sensor |-> "particulates", outcome |-> o]
            /\ cycleLog' = AddLog(cycleLog, a)
            /\ gauges' = u.gauges
            /\ hists' = u.hists
            /\ mainPc' = IF u.raised THEN "crashed" ELSE "end_of_cycle"
    /\ cycleReads' = cycleReads \cup {"particulates"}
    /\ UNCHANGED <<cycles, configVars, forwarderVars, windowVars>>

\* "if DEBUG: logging.info(... collect_all_data())": an info entry at most,
\* and back to the top of the loop.
end_of_cycle ==
    /\ mainPc = "end_of_cycle"
    /\ mainPc' = "read_temperature"
    /\ UNCHANGED <<cycles, gauges, hists, cycleLog, cycleReads, driver,
                   configVars, forwarderVars, windowVars>>

mainVars == <<mainPc, cycles, gauges, hists, cycleLog, cycleReads, driver>>

\* ------------------------------------------------------------ forwarders
\* time.sleep(INFLUXDB_TIME_BETWEEN_POSTS) returns: a push cycle begins.
influxdb_wake ==
    /\ influxPc = "sleep"
    /\ influxPc' = "push"
    /\ influxResult' = "none"
    /\ influxLog' = "none"
    /\ UNCHANGED <<luftPc, luftPosts, luftLog, mainVars, configVars, windowVars>>

\* The rest of the loop body of post_to_influxdb: one point per field of
\* collect_all_data(), then the write.
post_to_influxdb ==
    /\ influxPc = "push"
    /\ \E o \in WriteOutcomes :
         LET sensor_data == collect_all_data(gauges)
             r == influxdb_push(o)
         IN /\ DOMAIN sensor_data = GaugeNames
            /\ influxResult' = r.result
            /\ influxLog' = r.log
            /\ influxPc' = r.pc
    /\ UNCHANGED <<luftPc, luftPosts, luftLog, mainVars, configVars, windowVars>>

\* time.sleep(LUFTDATEN_TIME_BETWEEN_POSTS) returns: a push cycle begins.
luftdaten_wake ==
    /\ luftPc = "sleep"
    /\ luftPc' = "push"
    /\ luftPosts' = << >>
    /\ luftLog' = "none"
    /\ UNCHANGED <<influxPc, influxResult, influxLog, mainVars, configVars, windowVars>>

\* Mutant: the forwarder clears the gauges it has just pushed.
post_to_luftdaten_clearing ==
    /\ luftPc = "push"
    /\ \E o1 \in PostOutcomes, o2 \in PostOutcomes :
         LET r == luftdaten_push(luftdaten_values, LUFTDATEN_SENSOR_UID, o1, o2)
         IN /\ luftPosts' = r.posts
            /\ luftLog' = r.log
            /\ luftPc' = r.pc
    /\ gauges' = InitGauges
    /\ UNCHANGED <<influxPc, influxResult, influxLog, mainPc, cycles, hists,
                   cycleLog, cycleReads, driver, configVars, windowVars>>

\* The rest of the loop body of post_to_luftdaten.
post_to_luftdaten ==
    /\ luftPc = "push"
    /\ \E o1 \in PostOutcomes, o2 \in PostOutcomes :
         LET sensor_data == collect_all_data(gauges)
             r == luftdaten_push(luftdaten_values, LUFTDATEN_SENSOR_UID, o1, o2)
         IN /\ \A i \in 1..Len(luftdaten_values) :
                  luftdaten_values[i].field \in DOMAIN sensor_data
            /\ luftPosts' = r.posts
            /\ luftLog' = r.log
            /\ luftPc' = r.pc
    /\ UNCHANGED <<influxPc, influxResult, influxLog, mainVars, configVars, windowVars>>

Next ==
    \/ read_temperature
    \/ read_pressure
    \/ read_humidity
    \/ read_light
    \/ read_gas
    \/ read_particulates
    \/ end_of_cycle
    \/ influxdb_wake
    \/ post_to_influxdb
    \/ luftdaten_wake
    \/ post_to_luftdaten

Spec == Init /\ [][Next]_vars

\* The forwarder threads are scheduled and time.sleep returns; nothing
\* bounds how long a write or a POST takes.
FairSpec == Spec /\ WF_vars(influxdb_wake) /\ WF_vars(luftdaten_wake)

\* ------------------------------------------- get_temperature, call by call
\* The rolling window of get_temperature over consecutive calls: the same
\* startup, then nothing but get_temperature(factor) calls.
TempInit ==
    /\ Init
    /\ enviro = FALSE
    /\ influxPc = "off"
    /\ luftPc = "off"

get_temperature_call ==
    /\ calls < MaxCalls
    /\ \E raw \in RawTemps, s1 \in CpuTemps, s2 \in CpuTemps :
         LET r == get_temperature(factor, raw, s1, s2)
         IN /\ cpu_temps' = r.cpu_temps
            /\ cpu_samples' = IF factor # 0 THEN Append(cpu_samples, s2) ELSE cpu_samples
            /\ returned' = r.temperature
    /\ calls' = calls + 1
    /\ UNCHANGED <<mainVars, configVars, forwarderVars>>

TempNext == get_temperature_call

TempSpec == TempInit /\ [][TempNext]_vars

\* ================================================================ claims
MainStep == mainPc' # mainPc
ForwarderStep == influxPc' # influxPc \/ luftPc' # luftPc

SensorFailed(sensor) ==
    driver.sensor = sensor /\ driver.outcome.kind \in {"io", "timeout"}

\* The gauges read_<sensor> writes.
GaugesOf(sensor) ==
    CASE sensor = "temperature" -> {"temperature"}
      [] sensor = "pressure" -> {"pressure"}
      [] sensor = "humidity" -> {"humidity"}
      [] sensor = "light" -> {"lux", "proximity"}
      [] sensor = "gas" -> {"oxidising", "reducing", "nh3"}
      [] OTHER -> {"pm1", "pm25", "pm10"}

ReadPc(sensor) ==
    CASE sensor = "temperature" -> "read_temperature"
      [] sensor = "pressure" -> "read_pressure"
      [] sensor = "humidity" -> "read_humidity"
      [] sensor = "light" -> "read_light"
      [] sensor = "gas" -> "read_gas"
      [] OTHER -> "read_particulates"

\* C1: a poll cycle in which get_pressure, get_humidity, get_light, get_gas
\* or get_particulates hits a bus I/O failure or a particulate read-timeout
\* does not end the main poll loop.
C1_SensorFailureNotFatal ==
    \A sensor \in {"pressure", "humidity", "light", "gas", "particulates"} :
        SensorFailed(sensor) => mainPc # "crashed"

\* C2: the poll-loop step in which a pressure, humidity, gas or light read
\* raises a bus I/O failure leaves the cycle with exactly one error entry
\* and exactly one reset_i2c call, and leaves the sensor's gauges at the
\* values they had.
C2_IOFailureLogsResetsAndKeepsGauge ==
    [][\A sensor \in {"pressure", "humidity", "gas", "light"} :
          (mainPc = ReadPc(sensor) /\ MainStep /\ driver'.outcome.kind = "io")
          => /\ cycleLog'.errors = 1
             /\ cycleLog'.resets = 1
             /\ \A g \in GaugesOf(sensor) : gauges'[g] = gauges[g]]_vars

\* A pressure read failed in the second cycle and the gauge still shows the
\* first cycle's reading.
C2_Witness ==
    /\ cycles = 2
    /\ driver = [sensor |-> "pressure", outcome |-> IOError]
    /\ cycleLog.errors = 1 /\ cycleLog.resets = 1
    /\ gauges["pressure"] \in Pressures

LastN(seq, n) == SubSeq(seq, Len(seq) - n + 1, Len(seq))

\* C3: after 5 or more consecutive get_temperature calls with a non-zero
\* factor, cpu_temps holds the CPU temperatures sampled by the 5 most
\* recent calls, one per call, oldest first.
C3_WindowHoldsLastFiveSamples ==
    (factor # 0 /\ calls >= WindowSize) => cpu_temps = LastN(cpu_samples, WindowSize)

KeysOf(post) == {post.sensordatavalues[i].value_type : i \in 1..Len(post.sensordatavalues)}

IsPin1Post(post) == post.pin = "1" /\ KeysOf(post) = {KEY_P1, KEY_P2}

IsPin11Post(post) ==
    post.pin = "11" /\ KeysOf(post) = {KEY_TEMPERATURE, KEY_PRESSURE, KEY_HUMIDITY}

TwoPosts(posts) ==
    /\ Len(posts) = 2
    /\ IsPin1Post(posts[1])
    /\ IsPin11Post(posts[2])
    /\ posts[1].sensor = posts[2].sensor

LuftdatenPushStep == luftPc = "push" /\ luftPc' # luftPc

\* C4 as stated: every push cycle of post_to_luftdaten issues exactly two
\* POSTs, X-PIN 1 with P1 and P2 only, then X-PIN 11 with temperature,
\* pressure and humidity only, both with the same X-Sensor.
C4_TwoPostsEveryCycle ==
    [][LuftdatenPushStep => TwoPosts(luftPosts')]_vars

\* C4 amended: every push cycle issues the X-PIN 1 POST with P1 and P2 only
\* first; unless that request raises, the X-PIN 11 POST with temperature,
\* pressure and humidity only and the same X-Sensor follows and nothing
\* else; when it raises, it is the only request of the cycle.
C4_TwoPostsUnlessFirstRaises ==
    [][LuftdatenPushStep =>
          /\ Len(luftPosts') >= 1
          /\ IsPin1Post(luftPosts'[1])
          /\ IF luftPosts'[1].outcome = "exception"
             THEN Len(luftPosts') = 1
             ELSE TwoPosts(luftPosts')]_vars

\* A push cycle ended with both requests answered.
C4_Witness ==
    /\ luftPc = "sleep"
    /\ TwoPosts(luftPosts)
    /\ luftPosts[1].outcome = "ok" /\ luftPosts[2].outcome = "ok"

InfluxFailed == influxResult = "exception"
LuftFailed == \E i \in 1..Len(luftPosts) : luftPosts[i].outcome \in {"exception", "failed"}

\* C5: a forwarder whose push failed has logged a warning, is not
\* terminated, and after the next sleep attempts the next push.
C5_ForwarderSurvivesFailure ==
    /\ [](InfluxFailed => (influxLog = "warning" /\ influxPc = "sleep"))
    /\ [](LuftFailed => (luftLog = "warning" /\ luftPc = "sleep"))
    /\ (InfluxFailed ~> influxPc = "push")
    /\ (LuftFailed ~> luftPc = "push")

\* Both forwarders are asleep after a failed push.
C5_Witness ==
    /\ InfluxFailed /\ influxPc = "sleep"
    /\ LuftFailed /\ luftPc = "sleep"
    /\ luftPosts[1].outcome = "exception"

\* C6: a read-timeout inside get_particulates adds one warning entry and no
\* reset_i2c call; a bus I/O failure there adds one error entry and one
\* reset_i2c call.
C6_TimeoutWarnsWithoutReset ==
    [][(mainPc = "read_particulates" /\ MainStep) =>
          /\ driver'.outcome.kind = "timeout" =>
                /\ cycleLog'.warnings = cycleLog.warnings + 1
                /\ cycleLog'.errors = cycleLog.errors
                /\ cycleLog'.resets = cycleLog.resets
                /\ cycleLog'.resets = 0
          /\ driver'.outcome.kind = "io" =>
                /\ cycleLog'.warnings = cycleLog.warnings
                /\ cycleLog'.errors = cycleLog.errors + 1
                /\ cycleLog'.resets = cycleLog.resets + 1]_vars

C6_Witness ==
    /\ driver = [sensor |-> "particulates", outcome |-> ReadTimeoutError]
    /\ cycleLog = [errors |-> 0, warnings |-> 1, resets |-> 0]

\* C7: with the enviro flag set, get_gas and get_particulates are never
\* invoked and the gas and particulate gauges and histograms are never
\* written, while every poll cycle reads temperature, pressure, humidity
\* and light.
C7_EnviroSkipsGasAndParticulates ==
    enviro =>
        /\ cycleReads \cap {"gas", "particulates"} = {}
        /\ \A g \in GaugesOf("gas") \cup GaugesOf("particulates") : gauges[g] = InitGauges[g]
        /\ hists = InitHists
        /\ mainPc \in {"end_of_cycle", "crashed"} =>
              {"temperature", "pressure", "humidity", "light"} \subseteq cycleReads

\* C8: a step of a forwarder thread leaves every gauge and histogram as it
\* is; whatever changes one is a step of the main poll loop.
C8_OnlyPollLoopWrites ==
    [][/\ ForwarderStep => (gauges' = gauges /\ hists' = hists)
       /\ (gauges' # gauges \/ hists' # hists) => MainStep]_vars

\* A forwarder has pushed what the poll loop had written.
C8_Witness ==
    /\ luftPc = "sleep" /\ Len(luftPosts) = 2
    /\ influxPc = "sleep" /\ influxResult = "ok"
    /\ gauges["pm10"] # 0 /\ hists # InitHists

\* C9: a successful particulate sample d sets the PM1, PM25 and PM10 gauges
\* to d.pm1, d.pm25 and d.pm10 and observes d.pm1, d.pm25 - d.pm1 and
\* d.pm10 - d.pm25 in the PM1, PM25 and PM10 histograms, one observation
\* each, in the bucket of that amount; no bucket count ever decreases.
C9_ParticulateGaugesRawHistogramsDifferences ==
    [][/\ (mainPc = "read_particulates" /\ MainStep /\ driver'.outcome.kind = "ok") =>
             LET d == driver'.outcome.val
                 Observed(name, amount) ==
                     /\ hists'[name].sum = hists[name].sum + amount
                     /\ HistCount(hists', name) = HistCount(hists, name) + 1
                     /\ hists'[name].counts[BucketOf(name, amount)]
                          = hists[name].counts[BucketOf(name, amount)] + 1
             IN /\ gauges'["pm1"] = d.pm1
                /\ gauges'["pm25"] = d.pm25
                /\ gauges'["pm10"] = d.pm10
                /\ Observed("pm1", d.pm1)
                /\ Observed("pm25", d.pm25 - d.pm1)
                /\ Observed("pm10", d.pm10 - d.pm25)
       /\ \A name \in HistNames : \A i \in DOMAIN hists[name].counts :
             hists'[name].counts[i] >= hists[name].counts[i]]_vars

\* Two samples were taken and the gauges show the second one.
C9_Witness ==
    /\ cycles = 2
    /\ driver.sensor = "particulates" /\ driver.outcome.kind = "ok"
    /\ gauges["pm25"] = driver.outcome.val.pm25
    /\ HistCount(hists, "pm25") = 2
    /\ hists["pm10"].sum > gauges["pm10"] - gauges["pm25"]

GivesNonZero(setting) == setting.given /\ setting.val # 0

\* C10: when neither -f nor ENVIROPLUS_FACTOR gives a non-zero factor, a
\* read_temperature that gets a reading sets the temperature gauge to
\* exactly the raw reading.
C10_NoFactorGaugeIsRaw ==
    (/\ ~GivesNonZero(argFactor) /\ ~GivesNonZero(envFactor)
     /\ driver.sensor = "temperature" /\ driver.outcome.kind = "ok")
    => gauges["temperature"] = driver.outcome.val

C10_Witness ==
    /\ argFactor = Given(0) /\ envFactor = Given(0)
    /\ cycles = 2
    /\ driver.sensor = "temperature" /\ driver.outcome.kind = "ok"
    /\ gauges["temperature"] = driver.outcome.val
====
